---- MODULE Spec2Model ----
(***************************************************************************)
(* LoRA adapter loading: BinaryFormatHolder::Load, LoraAdapter::           *)
(* LoadParametersFromFlatBuffer, details::CreateEmptyInput,                *)
(* details::MakeDeviceCopyIfNeeded and LoraAdapterContainer::              *)
(* LoadAdaptersFromConfig of src/models/lora_adapter.cpp.                  *)
(*                                                                         *)
(* Four specifications share the module, one per component:                *)
(*   Spec          one LoraAdapter instance and its BinaryFormatHolder     *)
(*   SpecRegistry  one LoraAdapterContainer                                *)
(*   SpecEmpty     CreateEmptyInput                                        *)
(*   SpecResolve   MakeDeviceCopyIfNeeded                                  *)
(***************************************************************************)
EXTENDS Integers, Sequences, FiniteSets, TLC

VARIABLES
  \* ---- CreateEmptyInput
  original,          \* the reference tensor passed to the last call
  empty_input,       \* what the last call returned (a tensor) or threw
  empty_input_buf,   \* the static backing buffer of lora_adapter.cpp:19
  \* ---- MakeDeviceCopyIfNeeded
  model_device_type, \* model.device_type_ of the last call
  param,             \* param.ort_user_supplied_value_ of the last call
  resolved,          \* what the last call returned or threw
  \* ---- one LoraAdapter
  adapter,           \* [name_, format_holder_ : [buffer_, parameters_], parameters_]
  file_name,         \* the file handed to the last LoadParametersFromFlatBuffer
  load_error,        \* "none" before any call, "ok", or the error thrown
  load_stages,       \* the stages BinaryFormatHolder::Load evaluated, in order
  \* ---- one LoraAdapterContainer
  adapters_,         \* the registry: adapter name -> adapter
  config,            \* config.lora_adapters.adapters of the current/last call
  adapters,          \* the local AdapterMap of the running call
  idx,               \* position of the range-for over config
  opened,            \* positions of config whose file the call handed to Load
  pc,                \* "idle" | "loop"
  calls,             \* how many calls of LoadAdaptersFromConfig have started
  config_error       \* "none", "ok", or the error the last call threw

varsEmpty    == <<original, empty_input, empty_input_buf>>
varsResolve  == <<model_device_type, param, resolved>>
varsAdapter  == <<adapter, file_name, load_error, load_stages>>
varsRegistry == <<adapters_, config, adapters, idx, opened, pc, calls, config_error>>
vars == <<original, empty_input, empty_input_buf,
          model_device_type, param, resolved,
          adapter, file_name, load_error, load_stages,
          adapters_, config, adapters, idx, opened, pc, calls, config_error>>

\* ------------------------------------------------------------------ bounds
MaxRank    == 3   \* reference shapes have rank 0..MaxRank
MaxDim     == 8   \* every dimension is in 0..MaxDim
MaxRecords == 2   \* parameter records per container file
MaxBatch   == 2   \* (name, file) pairs per config batch
MaxCalls   == 2   \* calls of LoadAdaptersFromConfig on one container
MaxData    == 3   \* tensor contents are in 0..MaxData
MaxHandle  == 3   \* caller supplied tensor instances are 1..MaxHandle

SeqsUpTo(S, n) == UNION {[1..k -> S] : k \in 0..n}

None == "none"

\* ============================================================ CreateEmptyInput
ElementTypes == {"float", "float16"}
Shapes       == SeqsUpTo(0..MaxDim, MaxRank)
RefTensors   == [shape : Shapes, type : ElementTypes, data : {"weights"}]

StaticBuf == <<"deadbeef", "beefdead">>

\* lines 36-42 with <= for <: which of the last two dimensions is zeroed
ZeroedDimTieLast(shape) ==
  LET num_dims  == Len(shape)
      last_dim  == shape[num_dims]
      penal_dim == shape[num_dims - 1]
  IN  IF last_dim <= penal_dim THEN num_dims ELSE num_dims - 1

\* lines 36-42 with the second-to-last dimension indexed as 0
ZeroedDimFirst(shape) ==
  LET num_dims  == Len(shape)
      last_dim  == shape[num_dims]
      penal_dim == shape[num_dims - 1]
  IN  IF last_dim < penal_dim THEN num_dims ELSE 1

\* lines 36-42: the (1-based) index of the dimension that is set to 0
ZeroedDim(shape) ==
  LET num_dims  == Len(shape)
      last_dim  == shape[num_dims]
      penal_dim == shape[num_dims - 1]
  IN  IF last_dim < penal_dim THEN num_dims ELSE num_dims - 1

\* lines 30-33
RankTooLow(shape) == Len(shape) < 2

\* lines 24-45: the value returned (or the exception thrown) for `orig`.
\* The tensor is created over &empty_input_buf with a data length of 0.
CreateEmptyInputValue(orig) ==
  IF RankTooLow(orig.shape)
  THEN [error |-> "InvalidShape"]   \* "Shape must have at least 2 dimensions"
  ELSE [error |-> None,
        shape |-> [orig.shape EXCEPT ![ZeroedDim(orig.shape)] = 0],
        type  |-> orig.type,
        data  |-> "empty_input_buf",
        data_len |-> 0]

\* one call, on the reference tensor the state holds
CreateEmptyInput ==
  /\ empty_input.error = "pending"
  /\ empty_input' = CreateEmptyInputValue(original)
  /\ UNCHANGED <<original, empty_input_buf>>
    /\ UNCHANGED <<varsResolve, varsAdapter, varsRegistry>>

\* ====================================================== MakeDeviceCopyIfNeeded
DeviceTypes       == {"CPU", "CUDA", "DML"}      \* Generators::DeviceType
MemoryDeviceTypes == {"CPU", "GPU", "FPGA"}      \* OrtMemoryInfoDeviceType
\* the instance CopyToDevice allocates is none of the caller's
NewHandle == MaxHandle + 1
UserTensors == [handle : 1..MaxHandle, device : MemoryDeviceTypes, data : 0..MaxData]

\* CopyToDevice(*src_value, model): a new tensor in the model's device memory
CopyToDevice(src_value, device_type) ==
  [handle |-> NewHandle, device |-> device_type, data |-> src_value.data]

\* lines 84-110
MakeDeviceCopyIfNeededValue(device_type, src_value) ==
  IF device_type # "CPU"
  THEN IF device_type = "CUDA" /\ src_value.device = "GPU"
       THEN [error |-> None, value |-> src_value]
       ELSE IF src_value.device # "CPU"
            THEN [error |-> "UnsupportedDevicePlacement", names |-> device_type]
            ELSE [error |-> None, value |-> CopyToDevice(src_value, device_type)]
  ELSE [error |-> None, value |-> src_value]

\* one call, on the model and the parameter the state holds
MakeDeviceCopyIfNeeded ==
  /\ resolved.error = "pending"
  /\ resolved' = MakeDeviceCopyIfNeededValue(model_device_type, param)
  /\ UNCHANGED <<model_device_type, param>>
    /\ UNCHANGED <<varsEmpty, varsAdapter, varsRegistry>>

\* ================================================== container files on disk
\* A parameter record of a container file.  The third record has rank 1.
FileRecords ==
  { [name |-> "lora_A", shape |-> <<8, 4>>],
    [name |-> "lora_B", shape |-> <<4, 8>>],
    [name |-> "lora_C", shape |-> <<4>>] }

\* the parameter lists a file can hold: records with distinct names
RecordLists ==
  { s \in SeqsUpTo(FileRecords, MaxRecords) :
      \A i, j \in 1..Len(s) : i # j => s[i].name # s[j].name }

\* The bytes of a file, seen through the three validators Load applies:
\* IsGenAiLoraFormatModelBytes, VerifyParametersBuffer and
\* IsLoraFormatVersionSupported(version()), and through parameters().
\* Bytes that fail the magic check or the verification have no records to read.
Contents ==
  { c \in [magic : BOOLEAN, schema : BOOLEAN, version : BOOLEAN, recs : RecordLists] :
      (~c.magic \/ ~c.schema) => c.recs = <<>> }
NoContent == [magic |-> FALSE, schema |-> FALSE, version |-> FALSE, recs |-> <<>>]

\* A path: `open` is is.good() after the ifstream constructor (line 49),
\* `read` is is.good() after is.read (line 59).
MissingFile == [open |-> FALSE, read |-> FALSE, content |-> NoContent]
Files == {MissingFile} \cup [open : {TRUE}, read : BOOLEAN, content : Contents]

\* ========================================================= BinaryFormatHolder
\* buffer_ is empty after construction; parameters_ is a pointer into
\* buffer_.data(), here the bytes it was computed over (set = not null).
EmptyBuffer == [loaded |-> FALSE, complete |-> FALSE, bytes |-> NoContent]
NullView    == [set |-> FALSE, over |-> NoContent]
EmptyHolder == [buffer_ |-> EmptyBuffer, parameters_ |-> NullView]

\* lines 47-78 with the schema verification moved before the magic check
LoadVerifyFirst(holder, file) ==
  IF ~file.open
  THEN [holder |-> holder, error |-> "IOError", stages |-> <<"open">>]
  ELSE LET h1 == [holder EXCEPT !.buffer_ =
                    [loaded |-> TRUE, complete |-> file.read, bytes |-> file.content]]
       IN
       IF ~file.read
       THEN [holder |-> h1, error |-> "IOError", stages |-> <<"open", "read">>]
       ELSE IF ~file.content.schema
       THEN [holder |-> h1, error |-> "CorruptData",
             stages |-> <<"open", "read", "verify">>]
       ELSE IF ~file.content.magic
       THEN [holder |-> h1, error |-> "InvalidFormat",
             stages |-> <<"open", "read", "verify", "magic">>]
       ELSE LET h2 == [h1 EXCEPT !.parameters_ = [set |-> TRUE, over |-> file.content]]
            IN IF ~file.content.version
               THEN [holder |-> h2, error |-> "UnsupportedVersion",
                     stages |-> <<"open", "read", "verify", "magic", "version">>]
               ELSE [holder |-> h2, error |-> "ok",
                     stages |-> <<"open", "read", "verify", "magic", "version">>]

\* lines 47-78.  The errors are the std::runtime_error messages:
\*   "Error opening/reading flatbuffers file"          IOError
\*   "does not appear to be a valid lora parameter format"  InvalidFormat
\*   "fails flatbuffers format verification"           CorruptData
\*   "unsupported lora format version"                 UnsupportedVersion
Load(holder, file) ==
  IF ~file.open                                                  \* 48-51
  THEN [holder |-> holder, error |-> "IOError", stages |-> <<"open">>]
  ELSE LET h1 == [holder EXCEPT !.buffer_ =                      \* 53-57
                    [loaded |-> TRUE, complete |-> file.read, bytes |-> file.content]]
       IN
       IF ~file.read                                             \* 59-61
       THEN [holder |-> h1, error |-> "IOError", stages |-> <<"open", "read">>]
       ELSE IF ~file.content.magic                               \* 65-67
       THEN [holder |-> h1, error |-> "InvalidFormat",
             stages |-> <<"open", "read", "magic">>]
       ELSE IF ~file.content.schema                              \* 69-72
       THEN [holder |-> h1, error |-> "CorruptData",
             stages |-> <<"open", "read", "magic", "verify">>]
       ELSE LET h2 == [h1 EXCEPT !.parameters_ =                 \* 74
                         [set |-> TRUE, over |-> file.content]]
            IN IF ~file.content.version                          \* 75-77
               THEN [holder |-> h2, error |-> "UnsupportedVersion",
                     stages |-> <<"open", "read", "magic", "verify", "version">>]
               ELSE [holder |-> h2, error |-> "ok",
                     stages |-> <<"open", "read", "magic", "verify", "version">>]

\* ================================================================ LoraAdapter
\* CreateOrtValueOverFlatBufferLoraParameter: the (name, tensor) of one record,
\* a host tensor with the record's shape; a record of rank below 2 is rejected.
CreateOrtValueOverFlatBufferLoraParameter(fbs_tensor) ==
  IF Len(fbs_tensor.shape) < 2
  THEN [error |-> "InvalidShape"]
  ELSE [error |-> "ok",
        param |-> [name_ |-> fbs_tensor.name,
                   ort_user_supplied_value_ |->
                     [shape |-> fbs_tensor.shape, device |-> "CPU"]]]

NewAdapter == [name_ |-> "", format_holder_ |-> EmptyHolder, parameters_ |-> <<>>]

\* lines 119-122: the range-for that fills `parameters`, from record i on;
\* the first record that throws ends it
RECURSIVE ExtractLoop(_, _, _)
ExtractLoop(recs, i, parameters) ==
  IF i > Len(recs)
  THEN [error |-> "ok", parameters |-> parameters]
  ELSE LET r == CreateOrtValueOverFlatBufferLoraParameter(recs[i])
       IN IF r.error # "ok"
          THEN [error |-> r.error, parameters |-> parameters]
          ELSE ExtractLoop(recs, i + 1, Append(parameters, r.param))

\* lines 112-124 filling the member parameters_ in place, after clearing it
LoadParametersInPlace(a, file) ==
  LET l  == Load(a.format_holder_, file)
      a1 == [a EXCEPT !.format_holder_ = l.holder]
  IN  IF l.error # "ok"
      THEN [adapter |-> a1, error |-> l.error, stages |-> l.stages]
      ELSE LET x == ExtractLoop(l.holder.parameters_.over.recs, 1, <<>>)
           IN [adapter |-> [a1 EXCEPT !.parameters_ = x.parameters],
               error |-> x.error, stages |-> l.stages]

\* lines 112-124 appending to the member parameters_ instead of swapping
LoadParametersAppending(a, file) ==
  LET l  == Load(a.format_holder_, file)
      a1 == [a EXCEPT !.format_holder_ = l.holder]
  IN  IF l.error # "ok"
      THEN [adapter |-> a1, error |-> l.error, stages |-> l.stages]
      ELSE LET x == ExtractLoop(l.holder.parameters_.over.recs, 1, <<>>)
           IN IF x.error # "ok"
              THEN [adapter |-> a1, error |-> x.error, stages |-> l.stages]
              ELSE [adapter |-> [a1 EXCEPT !.parameters_ = a.parameters_ \o x.parameters],
                    error |-> "ok", stages |-> l.stages]

\* lines 112-124
LoadParametersFromFlatBufferValue(a, file) ==
  LET l  == Load(a.format_holder_, file)                          \* 113
      a1 == [a EXCEPT !.format_holder_ = l.holder]
  IN  IF l.error # "ok"
      THEN [adapter |-> a1, error |-> l.error, stages |-> l.stages]
      ELSE LET x == ExtractLoop(l.holder.parameters_.over.recs, 1, <<>>)  \* 115-122
           IN IF x.error # "ok"
              THEN [adapter |-> a1, error |-> x.error, stages |-> l.stages]
              ELSE [adapter |-> [a1 EXCEPT !.parameters_ = x.parameters],  \* 123
                    error |-> "ok", stages |-> l.stages]

LoadParametersFromFlatBuffer ==
  \E f \in Files :
    LET r == LoadParametersFromFlatBufferValue(adapter, f)
    IN  /\ adapter' = r.adapter
        /\ file_name' = f
        /\ load_error' = r.error
        /\ load_stages' = r.stages
        /\ UNCHANGED <<varsEmpty, varsResolve, varsRegistry>>

\* ======================================================= LoraAdapterContainer
AdapterNames == {"a", "b"}

\* the files a config names: a missing one, and well-formed ones of one record
ConfigFiles ==
  {MissingFile} \cup
  { f \in Files : /\ f.open /\ f.read
                  /\ f.content.magic /\ f.content.schema /\ f.content.version
                  /\ Len(f.content.recs) = 1 }

\* config.lora_adapters.adapters: (adapter_name, file_name) pairs in the
\* order declared; a name may be declared more than once
Batches == SeqsUpTo([name : AdapterNames, file : ConfigFiles], MaxBatch)

EmptyMap == [n \in {} |-> NewAdapter]

\* adapters[adapter_name] of a std::map: the entry, created when absent
Put(map, name, a) == [n \in DOMAIN map \cup {name} |-> IF n = name THEN a ELSE map[n]]

\* adapter.SetName(adapter_name), line 136
SetName(a, name) == [a EXCEPT !.name_ = name]

\* lines 131-138 looking the name up in the registry as well as in the batch
LoopBodyChecksRegistry(registry, local, entry) ==
  IF entry.name \in DOMAIN local \/ entry.name \in DOMAIN registry
  THEN [adapters_ |-> registry, adapters |-> local, loaded |-> FALSE,
        error |-> "DuplicateAdapterName"]
  ELSE LET r == LoadParametersFromFlatBufferValue(SetName(NewAdapter, entry.name), entry.file)
       IN [adapters_ |-> registry,
           adapters  |-> Put(local, entry.name, r.adapter),
           loaded    |-> TRUE,
           error     |-> r.error]

\* lines 131-138 without the lookup of lines 131-134
LoopBodyNoLookup(registry, local, entry) ==
  LET r == LoadParametersFromFlatBufferValue(SetName(NewAdapter, entry.name), entry.file)
  IN [adapters_ |-> registry,
      adapters  |-> Put(local, entry.name, r.adapter),
      loaded    |-> TRUE,
      error     |-> r.error]

\* lines 131-138 inserting into the member adapters_ instead of the local map
LoopBodyInRegistry(registry, local, entry) ==
  IF entry.name \in DOMAIN local
  THEN [adapters_ |-> registry, adapters |-> local, loaded |-> FALSE,
        error |-> "DuplicateAdapterName"]
  ELSE LET r == LoadParametersFromFlatBufferValue(SetName(NewAdapter, entry.name), entry.file)
       IN [adapters_ |-> Put(registry, entry.name, r.adapter),
           adapters  |-> Put(local, entry.name, r.adapter),
           loaded    |-> TRUE,
           error     |-> r.error]

\* lines 131-138: one iteration of the range-for, for the pair `entry`.
\* `loaded` tells whether the iteration handed entry.file to Load.
LoopBody(registry, local, entry) ==
  IF entry.name \in DOMAIN local                                   \* 131-134
  THEN [adapters_ |-> registry, adapters |-> local, loaded |-> FALSE,
        error |-> "DuplicateAdapterName"]   \* "Adapter: ... already exist"
  ELSE LET r == LoadParametersFromFlatBufferValue(                \* 135-138
                  SetName(NewAdapter, entry.name), entry.file)
       IN [adapters_ |-> registry,
           adapters  |-> Put(local, entry.name, r.adapter),
           loaded    |-> TRUE,
           error     |-> r.error]

\* line 129: the call starts with an empty local map
LoadAdaptersFromConfigBegin ==
  /\ pc = "idle"
  /\ calls < MaxCalls
  /\ calls' = calls + 1
  /\ \E batch \in Batches : config' = batch
  /\ adapters' = EmptyMap
  /\ idx' = 1
  /\ opened' = {}
  /\ pc' = "loop"
  /\ config_error' = None
  /\ UNCHANGED adapters_
  /\ UNCHANGED <<varsEmpty, varsResolve, varsAdapter>>

\* lines 130-139: one iteration; an exception unwinds and destroys the local map
LoadAdaptersFromConfigIterate ==
  /\ pc = "loop"
  /\ idx <= Len(config)
  /\ LET r == LoopBody(adapters_, adapters, config[idx])
     IN  /\ adapters_' = r.adapters_
         /\ opened' = IF r.loaded THEN opened \cup {idx} ELSE opened
         /\ IF r.error = "ok"
            THEN /\ adapters' = r.adapters
                 /\ idx' = idx + 1
                 /\ UNCHANGED <<pc, config_error>>
            ELSE /\ adapters' = EmptyMap
                 /\ pc' = "idle"
                 /\ config_error' = r.error
                 /\ UNCHANGED idx
  /\ UNCHANGED <<config, calls>>
  /\ UNCHANGED <<varsEmpty, varsResolve, varsAdapter>>

\* line 140: adapters_.swap(adapters); the old set dies with the local map
LoadAdaptersFromConfigSwap ==
  /\ pc = "loop"
  /\ idx > Len(config)
  /\ adapters_' = adapters
  /\ adapters' = EmptyMap
  /\ pc' = "idle"
  /\ config_error' = "ok"
  /\ UNCHANGED <<config, idx, opened, calls>>
  /\ UNCHANGED <<varsEmpty, varsResolve, varsAdapter>>

\* ============================================================ specifications
InitEmpty ==
  /\ original = [shape |-> <<>>, type |-> "float", data |-> "weights"]
  /\ empty_input = [error |-> None]
  /\ empty_input_buf = StaticBuf
InitResolve ==
  /\ model_device_type = "CPU"
  /\ param = [handle |-> 1, device |-> "CPU", data |-> 0]
  /\ resolved = [error |-> None]
InitAdapter ==
  /\ adapter = NewAdapter
  /\ file_name = MissingFile
  /\ load_error = None
  /\ load_stages = <<>>
InitRegistry ==
  /\ adapters_ = EmptyMap
  /\ config = <<>>
  /\ adapters = EmptyMap
  /\ idx = 1
  /\ opened = {}
  /\ pc = "idle"
  /\ calls = 0
  /\ config_error = None

Init == InitEmpty /\ InitResolve /\ InitAdapter /\ InitRegistry

Next == LoadParametersFromFlatBuffer
Spec == Init /\ [][Next]_vars

NextRegistry ==
  \/ LoadAdaptersFromConfigBegin
  \/ LoadAdaptersFromConfigIterate
  \/ LoadAdaptersFromConfigSwap
SpecRegistry == Init /\ [][NextRegistry]_vars

\* CreateEmptyInput and MakeDeviceCopyIfNeeded are functions of their
\* arguments: the initial states range over the arguments, one call each.
InitEmptyInputs ==
  /\ original \in RefTensors
  /\ empty_input = [error |-> "pending"]
  /\ empty_input_buf = StaticBuf
  /\ InitResolve /\ InitAdapter /\ InitRegistry
NextEmpty == CreateEmptyInput
SpecEmpty == InitEmptyInputs /\ [][NextEmpty]_vars

InitResolveInputs ==
  /\ model_device_type \in DeviceTypes
  /\ param \in UserTensors
  /\ resolved = [error |-> "pending"]
  /\ InitEmpty /\ InitAdapter /\ InitRegistry
NextResolve == MakeDeviceCopyIfNeeded
SpecResolve == InitResolveInputs /\ [][NextResolve]_vars

\* ================================================================ properties
RECURSIVE Prod(_)
Prod(shape) == IF shape = <<>> THEN 1 ELSE Head(shape) * Prod(Tail(shape))

\* ---------------------------------------------------------------- C5
\* C5 as stated: for rank >= 2 CreateEmptyInput zeroes the smaller of the
\* last two dimensions and, when they are equal, the last one:
\* [8,4] -> [8,0], [4,8] -> [0,8], [4,4] -> [4,0].
C5_AsStated ==
  empty_input.error = None =>
    LET s == original.shape
        n == Len(s)
    IN  /\ empty_input.shape =
             [s EXCEPT ![IF s[n] <= s[n - 1] THEN n ELSE n - 1] = 0]
        /\ (s = <<8, 4>> => empty_input.shape = <<8, 0>>)
        /\ (s = <<4, 8>> => empty_input.shape = <<0, 8>>)
        /\ (s = <<4, 4>> => empty_input.shape = <<4, 0>>)

\* C5 amended: for rank >= 2 CreateEmptyInput zeroes the last dimension when
\* it is strictly smaller than the second-to-last one, and the second-to-last
\* dimension otherwise, equal dimensions included:
\* [8,4] -> [8,0], [4,8] -> [0,8], [4,4] -> [0,4].
C5_TieZeroesSecondToLast ==
  empty_input.error = None =>
    LET s == original.shape
        n == Len(s)
        r == empty_input.shape
    IN  /\ s[n] < s[n - 1]  => r[n] = 0 /\ r[n - 1] = s[n - 1]
        /\ s[n] >= s[n - 1] => r[n - 1] = 0 /\ r[n] = s[n]
        /\ (s = <<8, 4>> => r = <<8, 0>>)
        /\ (s = <<4, 8>> => r = <<0, 8>>)
        /\ (s = <<4, 4>> => r = <<0, 4>>)

C5_Witness ==
  /\ original.shape = <<4, 4>>
  /\ empty_input.error = None
  /\ empty_input.shape = <<0, 4>>

\* ---------------------------------------------------------------- C6
\* C6: CreateEmptyInput throws exactly when the reference rank is below 2;
\* otherwise the result has the reference's rank and element type, zero
\* elements, one of the last two dimensions set to 0 and every other
\* dimension as in the reference; the reference tensor and the static
\* buffer are never modified.
C6_ResultShape ==
  empty_input.error # "pending" =>
    LET s == original.shape
        n == Len(s)
    IN  /\ (empty_input.error = "InvalidShape") <=> (n < 2)
        /\ empty_input.error \in {"InvalidShape", None}
        /\ empty_input.error = None =>
             /\ Len(empty_input.shape) = n
             /\ empty_input.type = original.type
             /\ Prod(empty_input.shape) = 0
             /\ empty_input.data_len = 0
             /\ \E i \in {n - 1, n} : empty_input.shape = [s EXCEPT ![i] = 0]

C6_EmptyInput ==
  /\ [](C6_ResultShape /\ empty_input_buf = StaticBuf)
  /\ [][original' = original /\ empty_input_buf' = empty_input_buf]_vars

C6_Witness ==
  /\ Len(original.shape) = 3
  /\ original.shape[1] > 0 /\ original.shape[2] > original.shape[3]
  /\ original.shape[3] > 0
  /\ empty_input.error = None

\* ---------------------------------------------------------------- C7
\* The device class of a target: the one match lines 95-96 know is CUDA with
\* GPU memory; no residency is taken to match any other accelerator.
C7_Matches(target, residency) == target = "CUDA" /\ residency = "GPU"

\* C7: MakeDeviceCopyIfNeeded returns the supplied tensor itself for a CPU
\* target; for an accelerator target it returns the supplied tensor itself
\* when its residency matches the target's device class, a new device copy
\* with the same contents when it is host-resident, and otherwise throws
\* UnsupportedDevicePlacement naming the tensor's device class.
C7_Policy ==
  resolved.error # "pending" =>
    IF model_device_type = "CPU" \/ C7_Matches(model_device_type, param.device)
    THEN resolved.error = None /\ resolved.value = param
    ELSE IF param.device = "CPU"
    THEN /\ resolved.error = None
         /\ resolved.value.handle # param.handle
         /\ resolved.value.data = param.data
    ELSE /\ resolved.error = "UnsupportedDevicePlacement"
         /\ resolved.names = param.device

\* ---------------------------------------------------------------- C4
StageOrder == <<"open", "read", "magic", "verify", "version">>
Ran(stage) == \E i \in 1..Len(load_stages) : load_stages[i] = stage

\* C4: Load evaluates file read, magic check, schema verification and version
\* check in that order and throws the error of the first stage that fails;
\* no later stage is evaluated after a failure.
C4_FirstFailingStage ==
  load_error # None =>
    LET f  == file_name
        c  == f.content
        io == ~f.open \/ ~f.read
    IN  /\ load_stages = SubSeq(StageOrder, 1, Len(load_stages))
        /\ io => /\ load_error = "IOError"
                 /\ ~Ran("magic") /\ ~Ran("verify") /\ ~Ran("version")
        /\ (~io /\ ~c.magic) =>
                 /\ load_error = "InvalidFormat"
                 /\ Ran("magic") /\ ~Ran("verify") /\ ~Ran("version")
        /\ (~io /\ c.magic /\ ~c.schema) =>
                 /\ load_error = "CorruptData"
                 /\ Ran("verify") /\ ~Ran("version")
        /\ (~io /\ c.magic /\ c.schema /\ ~c.version) =>
                 /\ load_error = "UnsupportedVersion"
                 /\ Ran("version")
        /\ (~io /\ c.magic /\ c.schema /\ c.version) =>
                 load_error \notin {"IOError", "InvalidFormat", "CorruptData",
                                    "UnsupportedVersion"}

\* a file that fails the magic check and would fail the two later checks too
C4_Witness ==
  /\ file_name.open /\ file_name.read
  /\ ~file_name.content.magic /\ ~file_name.content.schema /\ ~file_name.content.version
  /\ load_error = "InvalidFormat"

\* ---------------------------------------------------------------- C8
\* C8: a LoadParametersFromFlatBuffer that fails, at whatever stage, leaves
\* the adapter's parameter list exactly as it was before the call.
C8_FailedLoadKeepsParameters ==
  [][load_error' # "ok" => adapter'.parameters_ = adapter.parameters_]_vars

\* a load that failed on its second record, on an adapter that held a list
C8_Witness ==
  /\ load_error = "InvalidShape"
  /\ Len(file_name.content.recs) = 2
  /\ Len(file_name.content.recs[1].shape) >= 2
  /\ Len(adapter.parameters_) = 2

\* ---------------------------------------------------------------- C9
\* C9: after a successful LoadParametersFromFlatBuffer the parameter list is
\* the records of that file, one parameter per record in file order, whatever
\* the adapter held before.
C9_ParametersAreLastFile ==
  load_error = "ok" =>
    LET recs == file_name.content.recs
        ps   == adapter.parameters_
    IN  /\ Len(ps) = Len(recs)
        /\ \A i \in 1..Len(recs) :
             /\ ps[i].name_ = recs[i].name
             /\ ps[i].ort_user_supplied_value_.shape = recs[i].shape

C9_Witness ==
  /\ load_error = "ok"
  /\ Len(adapter.parameters_) = 2
  /\ adapter.parameters_[1].name_ = "lora_B"

\* ---------------------------------------------------------------- C10
\* C10: the view GetParameters exposes is either absent or a view of the
\* bytes buffer_ holds now, and those bytes passed the magic, schema and
\* version checks.
C10_ViewIsValid ==
  LET h == adapter.format_holder_
  IN  h.parameters_.set =>
        /\ h.buffer_.loaded /\ h.buffer_.complete
        /\ h.buffer_.bytes = h.parameters_.over
        /\ h.buffer_.bytes.magic /\ h.buffer_.bytes.schema /\ h.buffer_.bytes.version

\* ------------------------------------------------- LoadAdaptersFromConfig
BatchNames(batch) == {batch[i].name : i \in 1..Len(batch)}
HasRepeat(batch) ==
  \E i, j \in 1..Len(batch) : i < j /\ batch[i].name = batch[j].name
\* the first position whose name an earlier position already declared
FirstRepeat(batch) ==
  CHOOSE k \in 1..Len(batch) :
    /\ \E j \in 1..(k - 1) : batch[j].name = batch[k].name
    /\ \A m \in 1..(k - 1) : \A j \in 1..(m - 1) : batch[j].name # batch[m].name
\* the file passes every stage of Load and every record has rank >= 2
FileLoads(f) ==
  /\ f.open /\ f.read /\ f.content.magic /\ f.content.schema /\ f.content.version
  /\ \A i \in 1..Len(f.content.recs) : Len(f.content.recs[i].shape) >= 2
\* the error a fresh adapter's load of f ends with
LoadErrorOf(f) ==
  IF ~f.open \/ ~f.read THEN "IOError"
  ELSE IF ~f.content.magic THEN "InvalidFormat"
  ELSE IF ~f.content.schema THEN "CorruptData"
  ELSE IF ~f.content.version THEN "UnsupportedVersion"
  ELSE IF \E i \in 1..Len(f.content.recs) : Len(f.content.recs[i].shape) < 2
       THEN "InvalidShape"
  ELSE "ok"
\* map holds, for every pair of a repeat-free batch, the adapter of that file
IsBatch(map, batch) ==
  /\ DOMAIN map = BatchNames(batch)
  /\ \A i \in 1..Len(batch) :
       LET a == map[batch[i].name]
           recs == batch[i].file.content.recs
       IN  /\ a.name_ = batch[i].name
           /\ Len(a.parameters_) = Len(recs)
           /\ \A k \in 1..Len(recs) : a.parameters_[k].name_ = recs[k].name
CallEnds == pc = "loop" /\ pc' = "idle"

\* ---------------------------------------------------------------- C1
\* C1 as stated, for batches whose files all load: a call on a registry that
\* already holds a name of the batch fails with DuplicateAdapterName and
\* leaves the mapping as it was.
C1_AsStated ==
  [][ ( /\ CallEnds
        /\ BatchNames(config) \cap DOMAIN adapters_ # {}
        /\ \A i \in 1..Len(config) : FileLoads(config[i].file) )
      => (config_error' = "DuplicateAdapterName" /\ adapters_' = adapters_) ]_vars

\* C1 amended: names already registered are not consulted.  A call on a
\* registry that already holds a name of the batch fails with
\* DuplicateAdapterName only if a name is repeated within the batch, and then
\* leaves the mapping as it was; if no name is repeated and every file loads,
\* the call succeeds and the mapping is exactly the adapters of the batch.
C1_RegisteredNamesReplaced ==
  [][ (CallEnds /\ BatchNames(config) \cap DOMAIN adapters_ # {})
      => /\ config_error' = "DuplicateAdapterName"
              => (HasRepeat(config) /\ adapters_' = adapters_)
         /\ (~HasRepeat(config) /\ \A i \in 1..Len(config) : FileLoads(config[i].file))
              => (config_error' = "ok" /\ IsBatch(adapters_', config)) ]_vars

\* the loop is through a batch that names a registered adapter, with another
\* file than the registered one
C1_Witness ==
  /\ pc = "loop" /\ idx > Len(config)
  /\ \E n \in DOMAIN adapters_ \cap DOMAIN adapters : adapters_[n] # adapters[n]

\* ---------------------------------------------------------------- C2
\* C2 as stated: a call with a batch in which a name occurs twice fails with
\* DuplicateAdapterName, does not open the file of the second occurrence, and
\* afterwards none of the batch's names is registered.
C2_AsStated ==
  (pc = "idle" /\ config_error # None /\ HasRepeat(config)) =>
     /\ config_error = "DuplicateAdapterName"
     /\ FirstRepeat(config) \notin opened
     /\ BatchNames(config) \cap DOMAIN adapters_ = {}

\* C2 amended: a call with a batch in which a name occurs twice fails and
\* leaves the mapping as it was before the call (a name of the batch is
\* registered afterwards exactly if it was before); it fails with
\* DuplicateAdapterName if every file before the second occurrence loads and
\* with the load error of the first failing file otherwise; the file of the
\* second occurrence, and every later one, is never opened.
C2_RepeatAbortsBatch ==
  [][ (pc = "loop" /\ HasRepeat(config)) =>
        LET k == FirstRepeat(config)
            bad    == {j \in 1..(k - 1) : ~FileLoads(config[j].file)}
            before == bad = {}
        IN  /\ adapters_' = adapters_
            /\ \A j \in k..Len(config) : j \notin opened'
            /\ pc' = "idle" =>
                 /\ config_error' \notin {"ok", None}
                 /\ before  => config_error' = "DuplicateAdapterName"
                 /\ ~before => \E j \in bad :
                                   /\ \A m \in bad : j <= m
                                   /\ config_error' = LoadErrorOf(config[j].file) ]_vars

\* the second occurrence was reached, on a registry that holds the name
C2_Witness ==
  /\ pc = "idle" /\ config_error = "DuplicateAdapterName"
  /\ config[FirstRepeat(config)].name \in DOMAIN adapters_

\* ---------------------------------------------------------------- C3
\* C3: every step of LoadAdaptersFromConfig leaves the registry as it is,
\* except the last step of a successful call, which installs the adapters of
\* the whole batch; a call that fails at any position changes nothing.
C3_AllOrNothing ==
  [][ \/ adapters_' = adapters_
      \/ /\ CallEnds /\ config_error' = "ok"
         /\ IsBatch(adapters_', config) ]_vars

\* a call failed at its second pair, after the first one had loaded
C3_Witness ==
  /\ pc = "idle" /\ config_error = "IOError"
  /\ idx = 2 /\ opened = {1, 2}
  /\ adapters_ # EmptyMap

====
